---- MODULE Spec2Model ----
(***************************************************************************)
(* A model of the fleetapi server (src/server.js): the HTTP handlers that  *)
(* delegate to the external fleetctl tool, the masking of the argument     *)
(* vector for the log, the interpretation of the tool's output             *)
(* (parsePossibleJson) and the normalisation of host records               *)
(* (extractHostsFromOutput).                                               *)
(*                                                                         *)
(* Text is modelled as a sequence of one-character strings, so that trim,  *)
(* split, indexOf, slice, join, the regular expressions and JSON.parse are *)
(* computed character by character as the code computes them.              *)
(***************************************************************************)
EXTENDS Integers, Sequences, FiniteSets, TLC

(***************************************************************************)
(* Bounds of the model.                                                    *)
(***************************************************************************)
\* Longest raw output handed to the interpreter in InterpSpec.
MaxLen == 4

(***************************************************************************)
(* Text helpers.                                                           *)
(***************************************************************************)
Min2(a, b) == IF a <= b THEN a ELSE b

Max2(a, b) == IF a >= b THEN a ELSE b

\* s.slice(from0, to0) with 0-based, end-exclusive indices inside the text.
Slice(s, from0, to0) == IF to0 <= from0 THEN <<>> ELSE SubSeq(s, from0 + 1, to0)

\* haystack.includes(needle)
Contains(hay, needle) ==
    \E i \in 0..(Len(hay) - Len(needle)) : SubSeq(hay, i + 1, i + Len(needle)) = needle

\* The characters String.prototype.trim removes (those the model's texts use).
IsJsSpace(c) == c \in {" ", "\t", "\n", "\r", "\f"}

RECURSIVE TrimStart(_)
TrimStart(s) ==
    IF s # <<>> /\ IsJsSpace(Head(s)) THEN TrimStart(Tail(s)) ELSE s

RECURSIVE TrimEnd(_)
TrimEnd(s) ==
    IF s # <<>> /\ IsJsSpace(s[Len(s)]) THEN TrimEnd(SubSeq(s, 1, Len(s) - 1)) ELSE s

\* String.prototype.trim
JsTrim(s) == TrimEnd(TrimStart(s))

\* s.indexOf(c): 0-based index of the first occurrence, -1 when there is none.
IndexOf(s, c) ==
    IF \E i \in 1..Len(s) : s[i] = c
    THEN (CHOOSE i \in 1..Len(s) : s[i] = c /\ \A j \in 1..(i - 1) : s[j] # c) - 1
    ELSE -1

\* s.lastIndexOf(c)
LastIndexOf(s, c) ==
    IF \E i \in 1..Len(s) : s[i] = c
    THEN (CHOOSE i \in 1..Len(s) : s[i] = c /\ \A j \in (i + 1)..Len(s) : s[j] # c) - 1
    ELSE -1

\* s.split(sep) for a one-character separator.
RECURSIVE SplitAcc(_, _, _, _)
SplitAcc(s, sep, cur, acc) ==
    IF s = <<>> THEN Append(acc, cur)
    ELSE IF Head(s) = sep THEN SplitAcc(Tail(s), sep, <<>>, Append(acc, cur))
    ELSE SplitAcc(Tail(s), sep, Append(cur, Head(s)), acc)

Split(s, sep) == SplitAcc(s, sep, <<>>, <<>>)

\* parts.join(sep)
RECURSIVE Join(_, _)
Join(parts, sep) ==
    IF parts = <<>> THEN <<>>
    ELSE IF Len(parts) = 1 THEN parts[1]
    ELSE parts[1] \o sep \o Join(Tail(parts), sep)

DigitChars == <<"0", "1", "2", "3", "4", "5", "6", "7", "8", "9">>

\* String(n) for a natural number.
RECURSIVE Decimal(_)
Decimal(n) ==
    IF n < 10 THEN <<DigitChars[n + 1]>>
    ELSE Decimal(n \div 10) \o <<DigitChars[(n % 10) + 1]>>

(***************************************************************************)
(* JSON values, tagged by their JavaScript type.  v holds a text for       *)
(* scalars, the elements for an array, the key -> value map for an object. *)
(***************************************************************************)
Undefined == [t |-> "undefined", v |-> <<>>]

JNull == [t |-> "null", v |-> <<>>]

JTrue == [t |-> "bool", v |-> <<"t", "r", "u", "e">>]

JFalse == [t |-> "bool", v |-> <<"f", "a", "l", "s", "e">>]

JNum(lexeme) == [t |-> "num", v |-> lexeme]

JStr(text) == [t |-> "str", v |-> text]

JArr(elems) == [t |-> "arr", v |-> elems]

JObj(members) == [t |-> "obj", v |-> members]

\* obj[key] = val on a key -> value map (a later duplicate key wins).
SetKey(members, key, val) ==
    [k \in (DOMAIN members) \cup {key} |-> IF k = key THEN val ELSE members[k]]

(***************************************************************************)
(* JSON.parse, as a recursive-descent parser over the JSON grammar:        *)
(* whitespace, arrays, objects, strings (with the simple escapes),         *)
(* integers and the three literals.  Fractions, exponents and \u escapes   *)
(* are outside the texts of this model.  A failure carries the 0-based     *)
(* position of the offending character (Len(s) when the input ended).      *)
(***************************************************************************)
IsJsonWs(c) == c \in {" ", "\t", "\n", "\r"}

IsDigit(c) == c \in {"0", "1", "2", "3", "4", "5", "6", "7", "8", "9"}

POk(val, next) == [ok |-> TRUE, val |-> val, pos |-> next]

PFail(at) == [ok |-> FALSE, val |-> Undefined, pos |-> at]

RECURSIVE SkipWs(_, _)
SkipWs(s, i) == IF i <= Len(s) /\ IsJsonWs(s[i]) THEN SkipWs(s, i + 1) ELSE i

RECURSIVE DigitsEnd(_, _)
DigitsEnd(s, i) == IF i <= Len(s) /\ IsDigit(s[i]) THEN DigitsEnd(s, i + 1) ELSE i

\* A number starting at i (an optional minus, then 0 or a digit run).
ParseNumber(s, i) ==
    LET d == IF s[i] = "-" THEN i + 1 ELSE i
    IN  IF d > Len(s) \/ ~IsDigit(s[d]) THEN PFail(d)
        ELSE LET e == IF s[d] = "0" THEN d + 1 ELSE DigitsEnd(s, d)
             IN  POk(JNum(SubSeq(s, i, e - 1)), e)

\* The literal word at i, or a failure at its first wrong character.
RECURSIVE MatchWord(_, _, _, _, _)
MatchWord(s, i, word, k, val) ==
    IF k > Len(word) THEN POk(val, i + Len(word))
    ELSE IF i + k - 1 > Len(s) \/ s[i + k - 1] # word[k] THEN PFail(i + k - 1)
    ELSE MatchWord(s, i, word, k + 1, val)

\* The body of a string whose opening quote is at i - 1.
RECURSIVE ParseString(_, _, _)
ParseString(s, i, acc) ==
    IF i > Len(s) THEN PFail(i)
    ELSE IF s[i] = "\"" THEN POk(JStr(acc), i + 1)
    ELSE IF s[i] \in {"\n", "\t", "\r", "\f"} THEN PFail(i)
    ELSE IF s[i] = "\\"
         THEN IF i + 1 > Len(s) THEN PFail(i + 1)
              ELSE IF s[i + 1] \in {"\"", "\\", "/"}
                   THEN ParseString(s, i + 2, Append(acc, s[i + 1]))
              ELSE IF s[i + 1] = "n" THEN ParseString(s, i + 2, Append(acc, "\n"))
              ELSE IF s[i + 1] = "t" THEN ParseString(s, i + 2, Append(acc, "\t"))
              ELSE IF s[i + 1] = "r" THEN ParseString(s, i + 2, Append(acc, "\r"))
              ELSE PFail(i + 1)
    ELSE ParseString(s, i + 1, Append(acc, s[i]))

RECURSIVE ParseValue(_, _)
RECURSIVE ParseElems(_, _, _)
RECURSIVE ParseMembers(_, _, _)

ParseValue(s, i0) ==
    LET i == SkipWs(s, i0)
    IN  IF i > Len(s) THEN PFail(i)
        ELSE IF s[i] = "["
             THEN LET j == SkipWs(s, i + 1)
                  IN  IF j <= Len(s) /\ s[j] = "]" THEN POk(JArr(<<>>), j + 1)
                      ELSE ParseElems(s, j, <<>>)
        ELSE IF s[i] = "{"
             THEN LET j == SkipWs(s, i + 1)
                  IN  IF j <= Len(s) /\ s[j] = "}" THEN POk(JObj(<<>>), j + 1)
                      ELSE ParseMembers(s, j, <<>>)
        ELSE IF s[i] = "\"" THEN ParseString(s, i + 1, <<>>)
        ELSE IF s[i] = "-" \/ IsDigit(s[i]) THEN ParseNumber(s, i)
        ELSE IF s[i] = "t" THEN MatchWord(s, i, <<"t", "r", "u", "e">>, 1, JTrue)
        ELSE IF s[i] = "f" THEN MatchWord(s, i, <<"f", "a", "l", "s", "e">>, 1, JFalse)
        ELSE IF s[i] = "n" THEN MatchWord(s, i, <<"n", "u", "l", "l">>, 1, JNull)
        ELSE PFail(i)

\* The elements of an array after its "[": value ("," value)* "]".
ParseElems(s, i, acc) ==
    LET r == ParseValue(s, i)
    IN  IF ~r.ok THEN r
        ELSE LET j == SkipWs(s, r.pos)
             IN  IF j > Len(s) THEN PFail(j)
                 ELSE IF s[j] = "," THEN ParseElems(s, j + 1, Append(acc, r.val))
                 ELSE IF s[j] = "]" THEN POk(JArr(Append(acc, r.val)), j + 1)
                 ELSE PFail(j)

\* The members of an object after its "{": string ":" value ("," ...)* "}".
ParseMembers(s, i0, acc) ==
    LET i == SkipWs(s, i0)
    IN  IF i > Len(s) \/ s[i] # "\"" THEN PFail(i)
        ELSE LET k == ParseString(s, i + 1, <<>>)
             IN  IF ~k.ok THEN k
                 ELSE LET c == SkipWs(s, k.pos)
                      IN  IF c > Len(s) \/ s[c] # ":" THEN PFail(c)
                          ELSE LET r == ParseValue(s, c + 1)
                               IN  IF ~r.ok THEN r
                                   ELSE LET j == SkipWs(s, r.pos)
                                            m == SetKey(acc, k.val.v, r.val)
                                        IN  IF j > Len(s) THEN PFail(j)
                                            ELSE IF s[j] = "," THEN ParseMembers(s, j + 1, m)
                                            ELSE IF s[j] = "}" THEN POk(JObj(m), j + 1)
                                            ELSE PFail(j)

\* The message of the SyntaxError JSON.parse throws for a failure at 1-based
\* position at of s: V8 names the offending character and its offset.
SyntaxErrorMessage(s, at) ==
    IF at > Len(s)
    THEN <<"U", "n", "e", "x", "p", "e", "c", "t", "e", "d", " ", "e", "n", "d", " ", "o", "f", " ", "J", "S", "O", "N", " ", "i", "n", "p", "u", "t">>
    ELSE <<"U", "n", "e", "x", "p", "e", "c", "t", "e", "d", " ", "t", "o", "k", "e", "n", " ">>
         \o <<s[at]>>
         \o <<" ", "i", "n", " ", "J", "S", "O", "N", " ", "a", "t", " ", "p", "o", "s", "i", "t", "i", "o", "n", " ">>
         \o Decimal(at - 1)

\* A function's completion: a returned value, or a thrown error's message.
Returned(val) == [ok |-> TRUE, val |-> val, msg |-> <<>>]

Thrown(msg) == [ok |-> FALSE, val |-> Undefined, msg |-> msg]

\* JSON.parse(s): the value, or the SyntaxError (characters after the value
\* are an error too).
JsonParse(s) ==
    LET r == ParseValue(s, 1)
    IN  IF ~r.ok THEN Thrown(SyntaxErrorMessage(s, r.pos))
        ELSE LET j == SkipWs(s, r.pos)
             IN  IF j <= Len(s) THEN Thrown(SyntaxErrorMessage(s, j))
                 ELSE Returned(r.val)

(***************************************************************************)
(* parsePossibleJson (src/server.js 55-97).                                *)
(***************************************************************************)
\* 'Empty output from fleetctl'
EmptyOutputMessage ==
    <<"E", "m", "p", "t", "y", " ", "o", "u", "t", "p", "u", "t", " ", "f", "r", "o", "m", " ", "f", "l", "e", "e", "t", "c", "t", "l">>

\* `No valid JSON found in fleetctl output (${firstErr.message})`
NoValidJsonMessage(firstErrMessage) ==
    <<"N", "o", " ", "v", "a", "l", "i", "d", " ", "J", "S", "O", "N", " ", "f", "o", "u", "n", "d", " ", "i", "n", " ", "f", "l", "e", "e", "t", "c", "t", "l", " ", "o", "u", "t", "p", "u", "t", " ", "(">>
    \o firstErrMessage \o <<")">>

\* trimmed.split('\n').map((line) => line.trim()).filter(Boolean)
NonBlankLines(text) ==
    LET parts == Split(text, "\n")
        trimmedParts == [i \in 1..Len(parts) |-> JsTrim(parts[i])]
        NonBlank(line) == line # <<>>
    IN  SelectSeq(trimmedParts, NonBlank)

\* The for loop over the lines: it stops at the first line that does not
\* parse, with the lines parsed so far left in parsedLines.
RECURSIVE NdjsonLoop(_, _)
NdjsonLoop(lines, parsedLines) ==
    IF lines = <<>> THEN [ndjsonValid |-> TRUE, parsedLines |-> parsedLines]
    ELSE LET r == JsonParse(Head(lines))
         IN  IF r.ok THEN NdjsonLoop(Tail(lines), Append(parsedLines, r.val))
             ELSE [ndjsonValid |-> FALSE, parsedLines |-> parsedLines]

NdjsonStepPartial(text) ==
    LET lines == NonBlankLines(text)
    IN  IF Len(lines) > 1
        THEN LET l == NdjsonLoop(lines, <<>>)
             IN  [tried |-> TRUE, done |-> TRUE, val |-> JArr(l.parsedLines)]
        ELSE [tried |-> FALSE, done |-> FALSE, val |-> Undefined]

\* The NDJSON branch of the catch block: tried when more than one line is
\* left, done when it returns parsedLines.
NdjsonStep(text) ==
    LET lines == NonBlankLines(text)
    IN  IF Len(lines) > 1
        THEN LET l == NdjsonLoop(lines, <<>>)
             IN  [tried |-> TRUE, done |-> l.ndjsonValid,
                  val |-> IF l.ndjsonValid THEN JArr(l.parsedLines) ELSE Undefined]
        ELSE [tried |-> FALSE, done |-> FALSE, val |-> Undefined]

\* The extraction of a JSON text embedded in other text, and the final throw.
EmbeddedStepFirstClose(text, firstErrMessage) ==
    LET startArray == IndexOf(text, "[")
        startObject == IndexOf(text, "{")
        jsonStart == IF startArray >= 0 /\ startObject >= 0 THEN Min2(startArray, startObject)
                     ELSE IF startArray >= 0 THEN startArray
                     ELSE IF startObject >= 0 THEN startObject
                     ELSE -1
        jsonEnd == Max2(IndexOf(text, "]"), IndexOf(text, "}"))
    IN  IF jsonStart >= 0 /\ jsonEnd > jsonStart
        THEN JsonParse(Slice(text, jsonStart, jsonEnd + 1))
        ELSE Thrown(NoValidJsonMessage(firstErrMessage))

EmbeddedStep(text, firstErrMessage) ==
    LET startArray == IndexOf(text, "[")
        startObject == IndexOf(text, "{")
        jsonStart == IF startArray >= 0 /\ startObject >= 0 THEN Min2(startArray, startObject)
                     ELSE IF startArray >= 0 THEN startArray
                     ELSE IF startObject >= 0 THEN startObject
                     ELSE -1
        endArray == LastIndexOf(text, "]")
        endObject == LastIndexOf(text, "}")
        jsonEnd == Max2(endArray, endObject)
    IN  IF jsonStart >= 0 /\ jsonEnd > jsonStart
        THEN JsonParse(Slice(text, jsonStart, jsonEnd + 1))
        ELSE Thrown(NoValidJsonMessage(firstErrMessage))

\* The whole function, as the handlers call it.
parsePossibleJson(raw) ==
    LET text == JsTrim(raw)
    IN  IF text = <<>> THEN Thrown(EmptyOutputMessage)
        ELSE LET direct == JsonParse(text)
             IN  IF direct.ok THEN direct
                 ELSE LET nd == NdjsonStep(text)
                      IN  IF nd.done THEN Returned(nd.val)
                          ELSE EmbeddedStep(text, direct.msg)

(***************************************************************************)
(* JavaScript's view of a JSON value: property access, truthiness, ||,     *)
(* String() and object spread.                                             *)
(***************************************************************************)
\* v[key] (v?.[key] for a null or undefined v): own properties of an object;
\* none of the keys the code reads exists on a string, number or array.
Prop(v, key) == IF v.t = "obj" /\ key \in DOMAIN v.v THEN v.v[key] ELSE Undefined

\* typeof v === 'object' (null included, as in JavaScript)
TypeofObject(v) == v.t \in {"obj", "arr", "null"}

\* Boolean(v)
Truthy(v) ==
    CASE v.t = "undefined" -> FALSE
      [] v.t = "null" -> FALSE
      [] v.t = "bool" -> v = JTrue
      [] v.t = "num" -> v.v \notin {<<"0">>, <<"-", "0">>}
      [] v.t = "str" -> v.v # <<>>
      [] OTHER -> TRUE

\* a || b
Or(a, b) == IF Truthy(a) THEN a ELSE b

\* String(v); an array joins the strings of its elements with ",".  (An
\* object is "[object Object]": objects that define their own toString are
\* outside the values of this model.)
RECURSIVE JsString(_)
JsString(v) ==
    CASE v.t = "undefined" -> <<"u", "n", "d", "e", "f", "i", "n", "e", "d">>
      [] v.t = "null" -> <<"n", "u", "l", "l">>
      [] v.t = "arr" ->
            Join([i \in 1..Len(v.v) |->
                     IF v.v[i].t \in {"undefined", "null"} THEN <<>> ELSE JsString(v.v[i])],
                 <<",">>)
      [] v.t = "obj" -> <<"[", "o", "b", "j", "e", "c", "t", " ", "O", "b", "j", "e", "c", "t", "]">>
      [] v.t = "num" -> IF v.v = <<"-", "0">> THEN <<"0">> ELSE v.v
      [] OTHER -> v.v

\* The own enumerable properties {...v} copies: an object's members, an
\* array's elements and a string's characters under their indices.
Spread(v) ==
    CASE v.t = "obj" -> v.v
      [] v.t = "arr" -> [k \in {Decimal(i - 1) : i \in 1..Len(v.v)} |->
                            v.v[CHOOSE i \in 1..Len(v.v) : Decimal(i - 1) = k]]
      [] v.t = "str" -> [k \in {Decimal(i - 1) : i \in 1..Len(v.v)} |->
                            JStr(<<v.v[CHOOSE i \in 1..Len(v.v) : Decimal(i - 1) = k]>>)]
      [] OTHER -> <<>>

(***************************************************************************)
(* extractHostsFromOutput (src/server.js 99-157).                          *)
(***************************************************************************)
K_uuid == <<"u", "u", "i", "d">>

K_hostname == <<"h", "o", "s", "t", "n", "a", "m", "e">>

K_platform == <<"p", "l", "a", "t", "f", "o", "r", "m">>

K_status == <<"s", "t", "a", "t", "u", "s">>

K_spec == <<"s", "p", "e", "c">>

K_detail == <<"d", "e", "t", "a", "i", "l">>

K_mdm == <<"m", "d", "m">>

K_hardware_uuid == <<"h", "a", "r", "d", "w", "a", "r", "e", "_", "u", "u", "i", "d">>

K_computer_name == <<"c", "o", "m", "p", "u", "t", "e", "r", "_", "n", "a", "m", "e">>

K_display_name == <<"d", "i", "s", "p", "l", "a", "y", "_", "n", "a", "m", "e">>

K_osquery_platform == <<"o", "s", "q", "u", "e", "r", "y", "_", "p", "l", "a", "t", "f", "o", "r", "m">>

K_enrollment_status == <<"e", "n", "r", "o", "l", "l", "m", "e", "n", "t", "_", "s", "t", "a", "t", "u", "s">>

K_hosts == <<"h", "o", "s", "t", "s">>

K_data == <<"d", "a", "t", "a">>

EmptyString == JStr(<<>>)

EmptyObject == JObj(<<>>)

normalizeHostSpecFirst(host) ==
    LET spec == IF Truthy(host) /\ TypeofObject(host) THEN Or(Prop(host, K_spec), EmptyObject)
                ELSE EmptyObject
        uuid == Or(Prop(spec, K_uuid), Or(Prop(host, K_uuid), EmptyString))
        hostname == Or(Prop(spec, K_hostname), Or(Prop(host, K_hostname), EmptyString))
        platform == Or(Prop(spec, K_platform), Or(Prop(host, K_platform), EmptyString))
        status == Or(Prop(spec, K_status), Or(Prop(host, K_status), EmptyString))
    IN  JObj(SetKey(SetKey(SetKey(SetKey(Spread(host),
            K_uuid, JStr(JsString(uuid))),
            K_hostname, JStr(JsString(hostname))),
            K_platform, JStr(JsString(platform))),
            K_status, JStr(JsString(status))))

\* Lines 100-137.
normalizeHost(host) ==
    LET spec == IF Truthy(host) /\ TypeofObject(host) THEN Or(Prop(host, K_spec), EmptyObject)
                ELSE EmptyObject
        detail == IF Truthy(host) /\ TypeofObject(host) THEN Or(Prop(host, K_detail), EmptyObject)
                  ELSE EmptyObject
        mdm == Or(Prop(spec, K_mdm), EmptyObject)
        uuid ==
            Or(Prop(host, K_uuid),
            Or(Prop(spec, K_uuid),
            Or(Prop(spec, K_hardware_uuid),
            Or(Prop(detail, K_uuid),
            Or(Prop(detail, K_hardware_uuid),
               EmptyString)))))
        hostname ==
            Or(Prop(host, K_hostname),
            Or(Prop(spec, K_hostname),
            Or(Prop(spec, K_computer_name),
            Or(Prop(spec, K_display_name),
            Or(Prop(detail, K_hostname),
               EmptyString)))))
        platform ==
            Or(Prop(host, K_platform),
            Or(Prop(spec, K_platform),
            Or(Prop(spec, K_osquery_platform),
               EmptyString)))
        status ==
            Or(Prop(host, K_status),
            Or(Prop(spec, K_status),
            Or(Prop(mdm, K_enrollment_status),
               EmptyString)))
    IN  JObj(SetKey(SetKey(SetKey(SetKey(Spread(host),
            K_uuid, JStr(JsString(Or(uuid, EmptyString)))),
            K_hostname, JStr(JsString(Or(hostname, EmptyString)))),
            K_platform, JStr(JsString(Or(platform, EmptyString)))),
            K_status, JStr(JsString(Or(status, EmptyString)))))

\* Line 139.
normalizeMany(items) == [i \in 1..Len(items) |-> normalizeHost(items[i])]

extractHostsDataFirst(parsedOutput) ==
    IF parsedOutput.t = "arr" THEN JArr(normalizeMany(parsedOutput.v))
    ELSE IF Truthy(parsedOutput) /\ TypeofObject(parsedOutput)
         THEN IF Prop(parsedOutput, K_data).t = "arr"
              THEN JArr(normalizeMany(Prop(parsedOutput, K_data).v))
              ELSE IF Prop(parsedOutput, K_hosts).t = "arr"
                   THEN JArr(normalizeMany(Prop(parsedOutput, K_hosts).v))
                   ELSE JArr(normalizeMany(<<parsedOutput>>))
    ELSE JArr(<<>>)

\* Lines 141-156: the list of normalised hosts, as the array the handler sends.
extractHostsFromOutput(parsedOutput) ==
    IF parsedOutput.t = "arr" THEN JArr(normalizeMany(parsedOutput.v))
    ELSE IF Truthy(parsedOutput) /\ TypeofObject(parsedOutput)
         THEN IF Prop(parsedOutput, K_hosts).t = "arr"
              THEN JArr(normalizeMany(Prop(parsedOutput, K_hosts).v))
              ELSE IF Prop(parsedOutput, K_data).t = "arr"
                   THEN JArr(normalizeMany(Prop(parsedOutput, K_data).v))
                   ELSE JArr(normalizeMany(<<parsedOutput>>))
    ELSE JArr(<<>>)

(***************************************************************************)
(* Validation helpers (src/server.js 159-170).                             *)
(***************************************************************************)
LowerChars ==
    {"a", "b", "c", "d", "e", "f", "g", "h", "i", "j", "k", "l", "m",
     "n", "o", "p", "q", "r", "s", "t", "u", "v", "w", "x", "y", "z"}

UpperChars ==
    {"A", "B", "C", "D", "E", "F", "G", "H", "I", "J", "K", "L", "M",
     "N", "O", "P", "Q", "R", "S", "T", "U", "V", "W", "X", "Y", "Z"}

AlnumChars == LowerChars \cup UpperChars \cup {"0", "1", "2", "3", "4", "5", "6", "7", "8", "9"}

\* /^[class]+$/.test(text)
OneOrMoreOf(text, class) == text # <<>> /\ \A i \in 1..Len(text) : text[i] \in class

\* [^\s@]
NotSpaceNorAt(c) == ~IsJsSpace(c) /\ c # "@"

\* /^[^\s@]+@[^\s@]+\.[^\s@]+$/.test(str)
isValidEmail(str) ==
    LET text == JsString(str)
        Part(from, to) == from <= to /\ \A k \in from..to : NotSpaceNorAt(text[k])
    IN  \E i \in 1..Len(text), j \in 1..Len(text) :
            /\ i < j
            /\ text[i] = "@"
            /\ text[j] = "."
            /\ Part(1, i - 1)
            /\ Part(i + 1, j - 1)
            /\ Part(j + 1, Len(text))

\* /^[a-zA-Z0-9._-]+$/.test(str || 'default')
isValidContext(str) ==
    OneOrMoreOf(JsString(Or(str, JStr(<<"d", "e", "f", "a", "u", "l", "t">>))), AlnumChars \cup {".", "_", "-"})

\* /^[0-9a-fA-F-]{36}$/.test(text)
isValidUUID(text) ==
    /\ Len(text) = 36
    /\ \A i \in 1..Len(text) :
          text[i] \in {"0", "1", "2", "3", "4", "5", "6", "7", "8", "9",
                       "a", "b", "c", "d", "e", "f", "A", "B", "C", "D", "E", "F", "-"}

\* /^[a-zA-Z0-9._-]+$/.test(str) && !str.includes('..'), for a string
isValidFilename(str) ==
    /\ OneOrMoreOf(str.v, AlnumChars \cup {".", "_", "-"})
    /\ ~Contains(str.v, <<".", ".">>)

isValidHostIdentifier(str) ==
    IF str.t # "str" \/ JsTrim(str.v) = <<>> THEN FALSE
    ELSE IF isValidUUID(JsTrim(str.v)) THEN TRUE
    ELSE OneOrMoreOf(JsTrim(str.v), AlnumChars \cup {".", "_", "-", " "})

(***************************************************************************)
(* The configuration and the world outside the process.                    *)
(***************************************************************************)
FLEET_CTL_PATH == <<"/", "f", "l", "e", "e", "t", "c", "t", "l">>

PAYLOADS_DIR == <<"/", "p", "a", "y", "l", "o", "a", "d", "s">>

\* The files of the payloads directory (fs.existsSync(payloadPath)).
PayloadFiles == {<<"/", "p", "a", "y", "l", "o", "a", "d", "s", "/", "p", ".", "x", "m", "l">>}

\* How the child process of an execFile call can end: kind "ok" is exit code
\* 0, "exit" a non-zero exit code, "spawn" a failure to start the program,
\* "maxBuffer" more output than the maxBuffer option allows.
NoChild == [kind |-> "none", stdout |-> <<>>, stderr |-> <<>>]

ChildOutcomes ==
    {[kind |-> "ok", stdout |-> out, stderr |-> <<>>] :
          out \in {<<>>, <<"[", "{", "}", "]">>, <<"x", "[", "y", "]">>}}
    \cup {[kind |-> "exit", stdout |-> <<"[", "{", "}", "]">>, stderr |-> err] : err \in {<<>>, <<"b", "o", "o", "m">>}}
    \cup {[kind |-> "spawn", stdout |-> <<>>, stderr |-> <<>>],
          [kind |-> "maxBuffer", stdout |-> <<"[", "{", "}", "]">>, stderr |-> <<>>]}

\* error.message of the error execFile hands to its callback (Node's
\* child_process): a non-zero exit reports the command line it ran and the
\* captured stderr.
ExecErrorMessage(args, child) ==
    CASE child.kind = "exit" ->
            <<"C", "o", "m", "m", "a", "n", "d", " ", "f", "a", "i", "l", "e", "d", ":", " ">> \o FLEET_CTL_PATH \o <<" ">> \o Join(args, <<" ">>)
                \o <<"\n">> \o child.stderr
      [] child.kind = "spawn" -> <<"s", "p", "a", "w", "n", " ">> \o FLEET_CTL_PATH \o <<" ", "E", "N", "O", "E", "N", "T">>
      [] child.kind = "maxBuffer" -> <<"s", "t", "d", "o", "u", "t", " ", "m", "a", "x", "B", "u", "f", "f", "e", "r", " ", "l", "e", "n", "g", "t", "h", " ", "e", "x", "c", "e", "e", "d", "e", "d">>
      [] OTHER -> <<>>

(***************************************************************************)
(* Responses: res.status(code).json({status, message, <key>: ...}).  text  *)
(* is the string under key (details or output), data the value under key   *)
(* (data or hosts); message is one of the fixed messages of the code, with *)
(* the interpolated part of the one message that has one kept in text.     *)
(***************************************************************************)
NoResp == [code |-> 0, status |-> "", message |-> "", key |-> "", text |-> <<>>, data |-> Undefined]

ErrorResp(code, message) ==
    [code |-> code, status |-> "error", message |-> message, key |-> "", text |-> <<>>, data |-> Undefined]

ErrorDetails(code, message, details) ==
    [code |-> code, status |-> "error", message |-> message, key |-> "details", text |-> details, data |-> Undefined]

OkOutput(stdout) ==
    [code |-> 200, status |-> "ok", message |-> "", key |-> "output", text |-> stdout, data |-> Undefined]

OkData(key, value) ==
    [code |-> 200, status |-> "ok", message |-> "", key |-> key, text |-> <<>>, data |-> value]

(***************************************************************************)
(* runFleetCommand (src/server.js 22-53).                                  *)
(***************************************************************************)
\* Lines 23-27.
safeArgs(args) ==
    [index \in 1..Len(args) |->
        IF index > 1 /\ args[index - 1] = <<"-", "-", "p", "a", "s", "s", "w", "o", "r", "d">> THEN <<"*", "*", "*", "*", "*", "*">> ELSE args[index]]

\* `Executing: ${FLEET_CTL_PATH} ${shown.join(' ')}`
ExecutingLine(shown) == <<"E", "x", "e", "c", "u", "t", "i", "n", "g", ":", " ">> \o FLEET_CTL_PATH \o <<" ">> \o Join(shown, <<" ">>)

\* What a handler has done when it returns: the array args as the call left
\* it, the response sent (NoResp if none yet), the lines logged and the
\* argument vectors handed to execFile.
Rejected(resp) == [args |-> <<>>, resp |-> resp, log |-> <<>>, spawned |-> <<>>]

runFleetCommandInPlace(args) ==
    [args |-> safeArgs(args), resp |-> NoResp, log |-> <<ExecutingLine(safeArgs(args))>>,
     spawned |-> <<safeArgs(args)>>]

\* Lines 22-30: the synchronous part, up to the call of execFile.
runFleetCommand(args) ==
    [args |-> args, resp |-> NoResp, log |-> <<ExecutingLine(safeArgs(args))>>,
     spawned |-> <<args>>]

\* Body(value), with value computed once.
With(value, Body(_)) == CHOOSE result \in {Body(x) : x \in {value}} : TRUE

\* What a callback of execFile has done when it returns.
Answered(resp, log, interpreted) ==
    [resp |-> resp, log |-> log, interpreted |-> interpreted, uncaught |-> FALSE]

\* An exception that leaves the callback: nothing catches it, and the Node
\* process ends.
Uncaught(log) == [resp |-> NoResp, log |-> log, interpreted |-> TRUE, uncaught |-> TRUE]

\* Lines 30-52: the callback of execFile in runFleetCommand.
runFleetCommandCallback(args, child) ==
    IF child.kind # "ok"
    THEN Answered(ErrorDetails(500, "Command execution failed",
                      IF child.stderr # <<>> THEN child.stderr ELSE ExecErrorMessage(args, child)),
                  <<<<"C", "o", "m", "m", "a", "n", "d", " ", "f", "a", "i", "l", "e", "d", ":", " ">> \o ExecErrorMessage(args, child)>>, FALSE)
    ELSE IF \E i \in 1..Len(args) : args[i] = <<"-", "-", "j", "s", "o", "n">>
         THEN With(parsePossibleJson(child.stdout), LAMBDA jsonOutput :
                  IF jsonOutput.ok THEN Answered(OkData("data", jsonOutput.val), <<>>, TRUE)
                  ELSE Answered(OkOutput(child.stdout), <<>>, TRUE))
         ELSE Answered(OkOutput(child.stdout), <<>>, FALSE)

(***************************************************************************)
(* The routes (src/server.js 184-303).  A body or query field is a JSON    *)
(* value, Undefined when the caller left it out.                           *)
(***************************************************************************)
StartsWith(text, prefix) == Len(text) >= Len(prefix) /\ SubSeq(text, 1, Len(prefix)) = prefix

\* context || 'default'
ContextOrDefault(context) == Or(context, JStr(<<"d", "e", "f", "a", "u", "l", "t">>)).v

\* Lines 185-198.
postConfig(body) ==
    IF ~Truthy(body.address) \/ ~StartsWith(body.address.v, <<"h", "t", "t", "p">>)
    THEN Rejected(ErrorResp(400, "Invalid address URL"))
    ELSE IF ~isValidContext(body.context)
    THEN Rejected(ErrorResp(400, "Invalid context name"))
    ELSE runFleetCommand(<<<<"c", "o", "n", "f", "i", "g">>, <<"s", "e", "t">>, <<"-", "-", "a", "d", "d", "r", "e", "s", "s">>, body.address.v,
                           <<"-", "-", "c", "o", "n", "t", "e", "x", "t">>, ContextOrDefault(body.context)>>)

\* Lines 201-222.
postLogin(body) ==
    IF ~isValidEmail(body.email)
    THEN Rejected(ErrorResp(400, "Invalid email format"))
    ELSE IF ~Truthy(body.password)
    THEN Rejected(ErrorResp(400, "Password required"))
    ELSE runFleetCommand(<<<<"l", "o", "g", "i", "n">>, <<"-", "-", "e", "m", "a", "i", "l">>, body.email.v, <<"-", "-", "p", "a", "s", "s", "w", "o", "r", "d">>, body.password.v,
                           <<"-", "-", "c", "o", "n", "t", "e", "x", "t">>, ContextOrDefault(body.context)>>)

getHostsTwice(query) ==
    LET context == Or(query.context, JStr(<<"d", "e", "f", "a", "u", "l", "t">>))
        args == <<<<"g", "e", "t">>, <<"h", "o", "s", "t", "s">>, <<"-", "-", "m", "d", "m">>, <<"-", "-", "j", "s", "o", "n">>, <<"-", "-", "c", "o", "n", "t", "e", "x", "t">>, context.v>>
    IN  IF ~isValidContext(context)
        THEN Rejected(ErrorResp(400, "Invalid context name"))
        ELSE [args |-> args, resp |-> NoResp,
              log |-> <<ExecutingLine(safeArgs(args)), ExecutingLine(args)>>,
              spawned |-> <<args, args>>]

\* Lines 225-239: the synchronous part of GET /api/hosts.
getHosts(query) ==
    LET context == Or(query.context, JStr(<<"d", "e", "f", "a", "u", "l", "t">>))
        args == <<<<"g", "e", "t">>, <<"h", "o", "s", "t", "s">>, <<"-", "-", "m", "d", "m">>, <<"-", "-", "j", "s", "o", "n">>, <<"-", "-", "c", "o", "n", "t", "e", "x", "t">>, context.v>>
    IN  IF ~isValidContext(context)
        THEN Rejected(ErrorResp(400, "Invalid context name"))
        ELSE [args |-> args, resp |-> NoResp, log |-> <<ExecutingLine(args)>>,
              spawned |-> <<args>>]

hostsCallbackIgnoringError(args, child) ==
    With(parsePossibleJson(child.stdout), LAMBDA parsed :
        IF parsed.ok
        THEN Answered(OkData("hosts", extractHostsFromOutput(parsed.val)), <<>>, TRUE)
        ELSE Answered(ErrorDetails(500, "Failed to parse hosts JSON",
                          parsed.msg \o <<".", " ", "R", "a", "w", " ", "o", "u", "t", "p", "u", "t", " ", "(", "f", "i", "r", "s", "t", " ", "4", "0", "0", " ", "c", "h", "a", "r", "s", ")", ":", " ">>
                              \o Slice(child.stdout, 0, Min2(400, Len(child.stdout)))),
                      <<<<"J", "S", "O", "N", " ", "P", "a", "r", "s", "e", " ", "E", "r", "r", "o", "r", ":", " ">> \o parsed.msg>>, TRUE))

hostsCallbackWithoutCatch(args, child) ==
    IF child.kind # "ok"
    THEN Answered(ErrorDetails(500, "Failed to fetch hosts",
                      IF child.stderr # <<>> THEN child.stderr ELSE ExecErrorMessage(args, child)),
                  <<<<"G", "e", "t", " ", "h", "o", "s", "t", "s", " ", "e", "r", "r", "o", "r", ":", " ">> \o ExecErrorMessage(args, child)>>, FALSE)
    ELSE With(parsePossibleJson(child.stdout), LAMBDA parsed :
             IF parsed.ok
             THEN Answered(OkData("hosts", extractHostsFromOutput(parsed.val)), <<>>, TRUE)
             ELSE Uncaught(<<>>))

\* Lines 239-256: the callback of execFile in GET /api/hosts.
hostsCallback(args, child) ==
    IF child.kind # "ok"
    THEN Answered(ErrorDetails(500, "Failed to fetch hosts",
                      IF child.stderr # <<>> THEN child.stderr ELSE ExecErrorMessage(args, child)),
                  <<<<"G", "e", "t", " ", "h", "o", "s", "t", "s", " ", "e", "r", "r", "o", "r", ":", " ">> \o ExecErrorMessage(args, child)>>, FALSE)
    ELSE With(parsePossibleJson(child.stdout), LAMBDA parsed :
             IF parsed.ok
             THEN Answered(OkData("hosts", extractHostsFromOutput(parsed.val)), <<>>, TRUE)
             ELSE Answered(ErrorDetails(500, "Failed to parse hosts JSON",
                               parsed.msg \o <<".", " ", "R", "a", "w", " ", "o", "u", "t", "p", "u", "t", " ", "(", "f", "i", "r", "s", "t", " ", "4", "0", "0", " ", "c", "h", "a", "r", "s", ")", ":", " ">>
                                   \o Slice(child.stdout, 0, Min2(400, Len(child.stdout)))),
                           <<<<"J", "S", "O", "N", " ", "P", "a", "r", "s", "e", " ", "E", "r", "r", "o", "r", ":", " ">> \o parsed.msg>>, TRUE))

\* Lines 272-303.
postRunCommand(body) ==
    IF body.hosts.t # "arr" \/ Len(body.hosts.v) = 0
    THEN Rejected(ErrorResp(400, "No hosts selected"))
    ELSE IF ~isValidContext(body.context)
    THEN Rejected(ErrorResp(400, "Invalid context name"))
    ELSE LET NotValid(hostId) == ~isValidHostIdentifier(hostId)
             invalidHosts == SelectSeq(body.hosts.v, NotValid)
             payloadPath == PAYLOADS_DIR \o <<"/">> \o body.payload.v
             hostList == Join([i \in 1..Len(body.hosts.v) |-> body.hosts.v[i].v], <<",">>)
         IN  IF Len(invalidHosts) > 0
             THEN Rejected(ErrorDetails(400, "Invalid host identifiers detected: ",
                      Join([i \in 1..Len(invalidHosts) |-> JsString(invalidHosts[i])], <<",", " ">>)))
             ELSE IF ~Truthy(body.payload) \/ ~isValidFilename(body.payload)
             THEN Rejected(ErrorResp(400, "Invalid payload filename"))
             ELSE IF payloadPath \notin PayloadFiles
             THEN Rejected(ErrorResp(404, "Payload file not found"))
             ELSE runFleetCommand(<<<<"m", "d", "m">>, <<"r", "u", "n", "-", "c", "o", "m", "m", "a", "n", "d">>, <<"-", "-", "p", "a", "y", "l", "o", "a", "d">>, payloadPath,
                                    <<"-", "-", "h", "o", "s", "t", "s">>, hostList,
                                    <<"-", "-", "c", "o", "n", "t", "e", "x", "t">>, ContextOrDefault(body.context)>>)

(***************************************************************************)
(* State.                                                                  *)
(***************************************************************************)
VARIABLES
    rawOutput,     \* parsePossibleJson: its argument
    trimmed,       \* parsePossibleJson: const trimmed
    firstErr,      \* parsePossibleJson: the message of the caught firstErr
    ipc,           \* parsePossibleJson: where control is
    attempted,     \* parsePossibleJson: the decoding strategies run so far
    outcome,       \* parsePossibleJson: what it returned or threw
    parsedOutput,  \* extractHostsFromOutput: its argument
    hosts,         \* extractHostsFromOutput: the array it returned
    npc,           \* extractHostsFromOutput: where control is
    givenArgs,     \* runFleetCommand: the vector args as the caller built it
    callArgs,      \* runFleetCommand: the array args, as the call leaves it
    logged,        \* runFleetCommand: the lines written to the log
    execed,        \* runFleetCommand: the argument vectors given to execFile
    rpc,           \* runFleetCommand: where control is
    reqs,          \* the server: each request, its child process and its response
    alive          \* the server: the Node process is running

interpVars == <<rawOutput, trimmed, firstErr, ipc, attempted, outcome>>

normVars == <<parsedOutput, hosts, npc>>

redactVars == <<givenArgs, callArgs, logged, execed, rpc>>

serverVars == <<reqs, alive>>

vars == <<interpVars, normVars, redactVars, serverVars>>

NoOutcome == [ok |-> FALSE, val |-> Undefined, msg |-> <<>>]

InterpIdle ==
    /\ rawOutput = <<>>
    /\ trimmed = <<>>
    /\ firstErr = <<>>
    /\ ipc = "idle"
    /\ attempted = <<>>
    /\ outcome = NoOutcome

NormIdle ==
    /\ parsedOutput = Undefined
    /\ hosts = Undefined
    /\ npc = "idle"

RedactIdle ==
    /\ givenArgs = <<>>
    /\ callArgs = <<>>
    /\ logged = <<>>
    /\ execed = <<>>
    /\ rpc = "idle"

\* The fields a request body or query can carry.
NoBody ==
    [address |-> Undefined, context |-> Undefined, email |-> Undefined,
     password |-> Undefined, hosts |-> Undefined, payload |-> Undefined]

\* A request slot: stage is "none" before the request arrives, "pending"
\* while its child process runs, "responded" once a response was sent and
\* "aborted" if the process died under it.  child is how its child process
\* ended, interpreted whether parsePossibleJson was called on its stdout.
NoRequest ==
    [stage |-> "none", endpoint |-> "", body |-> NoBody, args |-> <<>>, spawned |-> <<>>,
     log |-> <<>>, resp |-> NoResp, child |-> NoChild, interpreted |-> FALSE]

\* Requests the model serves concurrently.
NumReqs == 2

Reqs == 1..NumReqs

ServerIdle ==
    /\ reqs = [r \in Reqs |-> NoRequest]
    /\ alive = FALSE

(***************************************************************************)
(* InterpSpec: parsePossibleJson, step by step, on every raw output of at  *)
(* most MaxLen characters.                                                 *)
(***************************************************************************)
InterpChars == {"[", "]", "{", "}", "1", "x", " ", "\n"}

Texts(chars, n) == UNION {[1..k -> chars] : k \in 0..n}

InterpInit ==
    /\ rawOutput \in Texts(InterpChars, MaxLen)
    /\ trimmed = <<>>
    /\ firstErr = <<>>
    /\ ipc = "entry"
    /\ attempted = <<>>
    /\ outcome = NoOutcome
    /\ NormIdle
    /\ RedactIdle
    /\ ServerIdle

TrimNoEmptyCheck ==
    /\ ipc = "entry"
    /\ trimmed' = JsTrim(rawOutput)
    /\ ipc' = "try"
    /\ UNCHANGED <<rawOutput, firstErr, attempted, outcome, normVars, redactVars, serverVars>>

\* Lines 56-59: trim, and throw on an empty text.
TrimAndCheckEmpty ==
    /\ ipc = "entry"
    /\ trimmed' = JsTrim(rawOutput)
    /\ IF trimmed' = <<>>
       THEN ipc' = "thrown" /\ outcome' = Thrown(EmptyOutputMessage)
       ELSE ipc' = "try" /\ outcome' = outcome
    /\ UNCHANGED <<rawOutput, firstErr, attempted, normVars, redactVars, serverVars>>

\* Lines 61-63: JSON.parse(trimmed), or the catch block with firstErr.
DirectDecode ==
    /\ ipc = "try"
    /\ attempted' = Append(attempted, "direct")
    /\ LET r == JsonParse(trimmed)
       IN  IF r.ok
           THEN ipc' = "returned" /\ outcome' = r /\ firstErr' = firstErr
           ELSE ipc' = "catch" /\ outcome' = outcome /\ firstErr' = r.msg
    /\ UNCHANGED <<rawOutput, trimmed, normVars, redactVars, serverVars>>

\* Lines 64-80: newline-delimited JSON.
NdjsonDecode ==
    /\ ipc = "catch"
    /\ LET nd == NdjsonStep(trimmed)
       IN  /\ attempted' = IF nd.tried THEN Append(attempted, "ndjson") ELSE attempted
           /\ IF nd.done
              THEN ipc' = "returned" /\ outcome' = Returned(nd.val)
              ELSE ipc' = "extract" /\ outcome' = outcome
    /\ UNCHANGED <<rawOutput, trimmed, firstErr, normVars, redactVars, serverVars>>

\* Lines 82-95: embedded extraction, or the final throw.
EmbeddedExtract ==
    /\ ipc = "extract"
    /\ attempted' = Append(attempted, "embedded")
    /\ LET r == EmbeddedStep(trimmed, firstErr)
       IN  /\ outcome' = r
           /\ ipc' = IF r.ok THEN "returned" ELSE "thrown"
    /\ UNCHANGED <<rawOutput, trimmed, firstErr, normVars, redactVars, serverVars>>

InterpNext ==
    \/ TrimAndCheckEmpty
    \/ DirectDecode
    \/ NdjsonDecode
    \/ EmbeddedExtract

InterpSpec == InterpInit /\ [][InterpNext]_vars

(***************************************************************************)
(* NormSpec: extractHostsFromOutput on parsed outputs of every shape it    *)
(* distinguishes, with hosts that set the candidate fields of one          *)
(* canonical field to every combination of a few JSON scalars.             *)
(***************************************************************************)
\* The candidates of each canonical field, as property paths, in the order
\* of the || chains of normalizeHost.
IdPaths ==
    <<<<K_uuid>>, <<K_spec, K_uuid>>, <<K_spec, K_hardware_uuid>>,
      <<K_detail, K_uuid>>, <<K_detail, K_hardware_uuid>>>>

NamePaths ==
    <<<<K_hostname>>, <<K_spec, K_hostname>>, <<K_spec, K_computer_name>>,
      <<K_spec, K_display_name>>, <<K_detail, K_hostname>>>>

PlatformPaths == <<<<K_platform>>, <<K_spec, K_platform>>, <<K_spec, K_osquery_platform>>>>

StatusPaths == <<<<K_status>>, <<K_spec, K_status>>, <<K_spec, K_mdm, K_enrollment_status>>>>

\* obj with the property at path set to val (objects on the way are made).
RECURSIVE SetPath(_, _, _)
SetPath(obj, path, val) ==
    IF Len(path) = 1 THEN JObj(SetKey(obj.v, path[1], val))
    ELSE LET child == IF path[1] \in DOMAIN obj.v THEN obj.v[path[1]] ELSE EmptyObject
         IN  JObj(SetKey(obj.v, path[1], SetPath(child, Tail(path), val)))

\* The host whose property at paths[i] is vals[i], left out when undefined.
RECURSIVE BuildHost(_, _, _)
BuildHost(paths, vals, n) ==
    IF n = 0 THEN EmptyObject
    ELSE LET rest == BuildHost(paths, vals, n - 1)
         IN  IF vals[n] = Undefined THEN rest ELSE SetPath(rest, paths[n], vals[n])

FewValues ==
    {Undefined, JNull, JStr(<<>>), JStr(<<"a">>), JStr(<<"b">>), JNum(<<"0">>), JFalse}

MoreValues == FewValues \cup {JNum(<<"7">>), JTrue}

\* Longest list of hosts in the outputs that vary the shape.
MaxHosts == 2

ShapeHosts ==
    <<JObj(K_uuid :> JStr(<<"a">>)),
      JObj(K_spec :> JObj(K_hostname :> JStr(<<"b">>))),
      JObj(K_spec :> JStr(<<"s">>)),
      JNull,
      JStr(<<"h">>)>>

HostLists == UNION {[1..n -> 1..Len(ShapeHosts)] : n \in 0..MaxHosts}

ListOf(idx) == [i \in 1..Len(idx) |-> ShapeHosts[idx[i]]]

Shapes == {"array", "hosts", "data", "both", "hostsNotArray", "single", "scalar"}

\* A parsed output of the given shape around the list of hosts.
Shaped(shape, list) ==
    CASE shape = "array" -> JArr(list)
      [] shape = "hosts" -> JObj(K_hosts :> JArr(list))
      [] shape = "data" -> JObj(K_data :> JArr(list))
      [] shape = "both" -> JObj(K_hosts :> JArr(list) @@ K_data :> JArr(<<JObj(K_uuid :> JStr(<<"d">>))>>))
      [] shape = "hostsNotArray" -> JObj(K_hosts :> JStr(<<"x">>) @@ K_data :> JArr(list))
      [] shape = "single" -> IF list = <<>> THEN EmptyObject ELSE list[1]
      [] OTHER -> IF list = <<>> THEN JNum(<<"0">>) ELSE JStr(<<"t">>)

NormInit ==
    /\ InterpIdle
    /\ RedactIdle
    /\ ServerIdle
    /\ hosts = Undefined
    /\ npc = "entry"
    /\ \/ \E vals \in [1..5 -> FewValues], shape \in {"array", "single"} :
             parsedOutput = Shaped(shape, <<BuildHost(IdPaths, vals, 5)>>)
       \/ \E vals \in [1..5 -> FewValues] :
             parsedOutput = Shaped("hosts", <<BuildHost(NamePaths, vals, 5)>>)
       \/ \E vals \in [1..3 -> MoreValues] :
             parsedOutput = Shaped("data", <<BuildHost(PlatformPaths, vals, 3)>>)
       \/ \E vals \in [1..3 -> MoreValues] :
             parsedOutput = Shaped("array", <<BuildHost(StatusPaths, vals, 3)>>)
       \/ \E idx \in HostLists, shape \in Shapes : parsedOutput = Shaped(shape, ListOf(idx))

\* One call of extractHostsFromOutput.
ExtractHosts ==
    /\ npc = "entry"
    /\ hosts' = extractHostsFromOutput(parsedOutput)
    /\ npc' = "done"
    /\ UNCHANGED <<parsedOutput, interpVars, redactVars, serverVars>>

NormNext == ExtractHosts

NormSpec == NormInit /\ [][NormNext]_vars

(***************************************************************************)
(* RedactSpec: the synchronous part of runFleetCommand on every argument   *)
(* vector of at most MaxArgs arguments.                                    *)
(***************************************************************************)
\* Longest argument vector in RedactSpec.
MaxArgs == 4

ArgTokens == {<<"-", "-", "p", "a", "s", "s", "w", "o", "r", "d">>, <<"p", "w">>, <<"*", "*", "*", "*", "*", "*">>, <<"-", "-", "j", "s", "o", "n">>}

RedactInit ==
    /\ InterpIdle
    /\ NormIdle
    /\ ServerIdle
    /\ givenArgs \in UNION {[1..n -> ArgTokens] : n \in 0..MaxArgs}
    /\ callArgs = givenArgs
    /\ logged = <<>>
    /\ execed = <<>>
    /\ rpc = "entry"

\* One call runFleetCommand(args, res), up to the return of execFile.
CallRunFleetCommand ==
    /\ rpc = "entry"
    /\ LET h == runFleetCommand(callArgs)
       IN  /\ callArgs' = h.args
           /\ logged' = h.log
           /\ execed' = h.spawned
    /\ rpc' = "spawned"
    /\ UNCHANGED <<givenArgs, interpVars, normVars, serverVars>>

RedactNext == CallRunFleetCommand

RedactSpec == RedactInit /\ [][RedactNext]_vars

(***************************************************************************)
(* Spec: the server with NumReqs requests in flight.  A handler runs to    *)
(* its return in one step (validation, log line, execFile call); the       *)
(* callback of execFile runs in one later step, with whatever end the      *)
(* child process took.                                                     *)
(***************************************************************************)
ConfigBodies ==
    {[NoBody EXCEPT !.address = a, !.context = c] :
        a \in {Undefined, JStr(<<"f", "t", "p", ":", "/", "/", "f">>), JStr(<<"h", "t", "t", "p", ":", "/", "/", "f">>)},
        c \in {Undefined, JStr(<<"-", "-", "j", "s", "o", "n">>), JStr(<<"c", " ", "d">>)}}

LoginBodies ==
    {[NoBody EXCEPT !.email = e, !.password = pw, !.context = c] :
        e \in {JStr(<<"a", "@", "b", ".", "c">>), JStr(<<"a", "b">>)},
        pw \in {Undefined, JStr(<<"S", "3">>)},
        c \in {Undefined, JStr(<<"c", " ", "d">>)}}

HostsQueries == {[NoBody EXCEPT !.context = c] : c \in {Undefined, JStr(<<"c", " ", "d">>)}}

RunCommandBodies ==
    {[NoBody EXCEPT !.hosts = h, !.payload = pl] :
        h \in {Undefined, JArr(<<>>), JArr(<<JStr(<<"h", "1">>)>>), JArr(<<JStr(<<"h", "1">>), JStr(<<"b", ";">>)>>)},
        pl \in {Undefined, JStr(<<"p", ".", "x", "m", "l">>), JStr(<<"q", ".", "x", "m", "l">>), JStr(<<".", ".", "/", "p">>)}}
    \cup {[NoBody EXCEPT !.hosts = JArr(<<JStr(<<"h", "1">>)>>), !.payload = JStr(<<"p", ".", "x", "m", "l">>),
                         !.context = JStr(<<"c", " ", "d">>)]}

Init ==
    /\ InterpIdle
    /\ NormIdle
    /\ RedactIdle
    /\ reqs = [r \in Reqs |-> NoRequest]
    /\ alive = TRUE

\* The request after its handler returned with h.
Begin(endpoint, body, h) ==
    [stage |-> IF h.resp # NoResp THEN "responded" ELSE "pending",
     endpoint |-> endpoint, body |-> body, args |-> h.args, spawned |-> h.spawned,
     log |-> h.log, resp |-> h.resp, child |-> NoChild, interpreted |-> FALSE]

\* The request q after the callback of its execFile returned with c.
End(q, child, c) ==
    [q EXCEPT !.stage = IF c.uncaught THEN "aborted" ELSE "responded",
              !.child = child,
              !.log = q.log \o c.log,
              !.resp = c.resp,
              !.interpreted = c.interpreted]

PostConfig(r) ==
    /\ alive
    /\ reqs[r].stage = "none"
    /\ \E body \in ConfigBodies :
          reqs' = [reqs EXCEPT ![r] = Begin("config", body, postConfig(body))]
    /\ UNCHANGED <<alive, interpVars, normVars, redactVars>>

PostLogin(r) ==
    /\ alive
    /\ reqs[r].stage = "none"
    /\ \E body \in LoginBodies :
          reqs' = [reqs EXCEPT ![r] = Begin("login", body, postLogin(body))]
    /\ UNCHANGED <<alive, interpVars, normVars, redactVars>>

GetHosts(r) ==
    /\ alive
    /\ reqs[r].stage = "none"
    /\ \E query \in HostsQueries :
          reqs' = [reqs EXCEPT ![r] = Begin("hosts", query, getHosts(query))]
    /\ UNCHANGED <<alive, interpVars, normVars, redactVars>>

PostRunCommand(r) ==
    /\ alive
    /\ reqs[r].stage = "none"
    /\ \E body \in RunCommandBodies :
          reqs' = [reqs EXCEPT ![r] = Begin("run-command", body, postRunCommand(body))]
    /\ UNCHANGED <<alive, interpVars, normVars, redactVars>>

\* The child of a request served through runFleetCommand ends, and the
\* callback runs.
RunFleetCommandCallback(r) ==
    /\ alive
    /\ reqs[r].stage = "pending"
    /\ reqs[r].endpoint \in {"config", "login", "run-command"}
    /\ \E child \in ChildOutcomes :
          \E c \in {runFleetCommandCallback(reqs[r].args, child)} :
              /\ reqs' = [reqs EXCEPT ![r] = End(reqs[r], child, c)]
              /\ alive' = ~c.uncaught
    /\ UNCHANGED <<interpVars, normVars, redactVars>>

\* The child of a GET /api/hosts request ends, and the callback runs.
HostsCallback(r) ==
    /\ alive
    /\ reqs[r].stage = "pending"
    /\ reqs[r].endpoint = "hosts"
    /\ \E child \in ChildOutcomes :
          \E c \in {hostsCallback(reqs[r].args, child)} :
              /\ reqs' = [reqs EXCEPT ![r] = End(reqs[r], child, c)]
              /\ alive' = ~c.uncaught
    /\ UNCHANGED <<interpVars, normVars, redactVars>>

Next ==
    \E r \in Reqs :
        \/ PostConfig(r)
        \/ PostLogin(r)
        \/ GetHosts(r)
        \/ PostRunCommand(r)
        \/ RunFleetCommandCallback(r)
        \/ HostsCallback(r)

Spec == Init /\ [][Next]_vars

\* Spec, with every child process ending: execFile calls the callback once
\* the child has ended or could not be started.
LiveSpec ==
    /\ Spec
    /\ \A r \in Reqs : WF_vars(RunFleetCommandCallback(r)) /\ WF_vars(HostsCallback(r))

(***************************************************************************)
(* Claims about parsePossibleJson, checked under InterpSpec.               *)
(***************************************************************************)
OnlyWhitespace(s) == \A i \in 1..Len(s) : IsJsSpace(s[i])

Has(seq, x) == \E i \in 1..Len(seq) : seq[i] = x

\* C7, as stated: once parsePossibleJson has run on an empty or
\* whitespace-only raw output, it has thrown an error whose message contains
\* "empty output", and no decoding strategy was attempted.
C7_EmptyOutputAsStated ==
    (ipc # "entry" /\ OnlyWhitespace(rawOutput)) =>
        /\ ipc = "thrown"
        /\ ~outcome.ok
        /\ Contains(outcome.msg, <<"e", "m", "p", "t", "y", " ", "o", "u", "t", "p", "u", "t">>)
        /\ attempted = <<>>

\* C7, amended: the message is 'Empty output from fleetctl', so it contains
\* "Empty output" with a capital E; the rest is as stated.
C7_EmptyOutput ==
    (ipc # "entry" /\ OnlyWhitespace(rawOutput)) =>
        /\ ipc = "thrown"
        /\ ~outcome.ok
        /\ outcome.msg = EmptyOutputMessage
        /\ Contains(outcome.msg, <<"E", "m", "p", "t", "y", " ", "o", "u", "t", "p", "u", "t">>)
        /\ attempted = <<>>

\* C7 witness: a non-empty raw output of whitespace only has been rejected.
C7_Witness ==
    /\ rawOutput # <<>>
    /\ OnlyWhitespace(rawOutput)
    /\ ipc = "thrown"

\* C9: when every strategy has failed (the function threw after the direct
\* decode failed), the thrown message carries the message of the direct
\* decode's error.
C9_FailureCarriesFirstError ==
    (ipc = "thrown" /\ Has(attempted, "direct")) => Contains(outcome.msg, firstErr)

\* The values of the lines, in line order.
LineValues(lines) == [i \in 1..Len(lines) |-> JsonParse(lines[i]).val]

AllLinesParse(lines) == \A i \in 1..Len(lines) : JsonParse(lines[i]).ok

\* C10: the NDJSON step runs only after the direct decode of the trimmed text
\* failed and only with more than one non-blank line; it returns exactly when
\* every non-blank trimmed line parses, and then the array of the lines'
\* values in line order; otherwise nothing of it is returned and embedded
\* extraction follows.
C10_Ndjson ==
    LET lines == NonBlankLines(JsTrim(rawOutput))
        pastNdjson == ipc \in {"extract", "returned", "thrown"} /\ Has(attempted, "ndjson")
    IN  /\ Has(attempted, "ndjson") =>
              /\ Len(attempted) >= 2
              /\ attempted[1] = "direct"
              /\ attempted[2] = "ndjson"
              /\ ~JsonParse(JsTrim(rawOutput)).ok
              /\ Len(lines) > 1
        /\ (pastNdjson /\ AllLinesParse(lines)) =>
              /\ ipc = "returned"
              /\ attempted = <<"direct", "ndjson">>
              /\ outcome = Returned(JArr(LineValues(lines)))
        /\ (pastNdjson /\ ~AllLinesParse(lines)) =>
              /\ ipc = "extract" \/ (Len(attempted) = 3 /\ attempted[3] = "embedded")
              /\ ipc = "extract" => outcome = NoOutcome

\* C10 witnesses: a two-line output whose lines both parse has been returned
\* as an array of two values, and one with a bad line has gone on to embedded
\* extraction.
C10_Witness ==
    /\ ipc = "returned"
    /\ attempted = <<"direct", "ndjson">>
    /\ outcome.val.t = "arr"
    /\ Len(outcome.val.v) = 2

C10_WitnessFallThrough ==
    /\ Has(attempted, "ndjson")
    /\ Has(attempted, "embedded")
    /\ ipc = "returned"

\* The positions of the opening and of the closing brackets of a text.
Opens(text) == {i \in 1..Len(text) : text[i] \in {"[", "{"}}

Closes(text) == {i \in 1..Len(text) : text[i] \in {"]", "}"}}

First(positions) == CHOOSE i \in positions : \A j \in positions : i <= j

Last(positions) == CHOOSE i \in positions : \A j \in positions : j <= i

\* A start exists and the end is strictly after it.
SpanExists(text) ==
    /\ Opens(text) # {}
    /\ Closes(text) # {}
    /\ Last(Closes(text)) > First(Opens(text))

\* The text from the start to the end, both included.
Span(text) == SubSeq(text, First(Opens(text)), Last(Closes(text)))

\* C12: embedded extraction is reached only after the direct decode of the
\* trimmed text failed and the NDJSON step returned nothing.  Once it has
\* run: if the first opening bracket comes before the last closing bracket,
\* the text between them, both included, went through JSON.parse, whose
\* value is the result (whose error ends the call when there is no value);
\* if not, nothing is parsed and the call ends with the error 'No valid JSON
\* found'.
C12_EmbeddedExtraction ==
    LET text == JsTrim(rawOutput)
        lines == NonBlankLines(text)
        reached == Has(attempted, "embedded")
    IN  /\ (ipc = "extract" \/ reached) =>
              /\ attempted[1] = "direct"
              /\ ~JsonParse(text).ok
              /\ Len(lines) <= 1 \/ ~AllLinesParse(lines)
              /\ Has(attempted, "ndjson") <=> Len(lines) > 1
        /\ ipc = "extract" => (~reached /\ outcome = NoOutcome)
        /\ reached =>
              /\ attempted[Len(attempted)] = "embedded"
              /\ IF SpanExists(text)
                 THEN IF JsonParse(Span(text)).ok
                      THEN ipc = "returned" /\ outcome = Returned(JsonParse(Span(text)).val)
                      ELSE ipc = "thrown" /\ outcome = Thrown(JsonParse(Span(text)).msg)
                 ELSE /\ ipc = "thrown"
                      /\ outcome = Thrown(NoValidJsonMessage(JsonParse(text).msg))

\* C12 witness: a one-line output with text before and after its JSON
\* value has been returned as that value.
C12_Witness ==
    /\ ipc = "returned"
    /\ attempted = <<"direct", "embedded">>
    /\ First(Opens(trimmed)) > 1
    /\ Last(Closes(trimmed)) < Len(trimmed)
    /\ outcome.ok

\* C12 witness: brackets that give no span (the last closing bracket is
\* before the first opening one) end in 'No valid JSON found'.
C12_WitnessNoSpan ==
    /\ ipc = "thrown"
    /\ Has(attempted, "embedded")
    /\ Opens(trimmed) # {}
    /\ Closes(trimmed) # {}
    /\ ~SpanExists(trimmed)

(***************************************************************************)
(* Claims about extractHostsFromOutput, checked under NormSpec.            *)
(***************************************************************************)
RECURSIVE PathGet(_, _)
PathGet(v, path) == IF path = <<>> THEN v ELSE PathGet(Prop(v, Head(path)), Tail(path))

\* The device sequence of section 4.4 of the specification.
ResolvedSequence(value) ==
    IF value.t = "arr" THEN value.v
    ELSE IF value.t = "obj" /\ Prop(value, K_hosts).t = "arr" THEN Prop(value, K_hosts).v
    ELSE IF value.t = "obj" /\ Prop(value, K_data).t = "arr" THEN Prop(value, K_data).v
    ELSE <<value>>

\* The string form of the first candidate that satisfies Match, "" if none.
FirstMatch(host, paths, Match(_)) ==
    LET found == {i \in 1..Len(paths) : Match(PathGet(host, paths[i]))}
    IN  IF found = {} THEN <<>>
        ELSE JsString(PathGet(host, paths[CHOOSE i \in found : \A j \in found : i <= j]))

\* A candidate that exists and is not empty: anything but an absent field, a
\* null and the empty string.
NonEmpty(v) == v.t \notin {"undefined", "null"} /\ v # JStr(<<>>)

\* Every record of the output has the four canonical fields, as strings, and
\* each is the string form of the first matching candidate of the element
\* it was made from.
CanonicalFieldsAre(Match(_)) ==
    LET elems == ResolvedSequence(parsedOutput)
    IN  \A i \in 1..Len(hosts.v) :
            /\ i <= Len(elems)
            /\ hosts.v[i].t = "obj"
            /\ \A f \in {<<K_uuid, IdPaths>>, <<K_hostname, NamePaths>>,
                         <<K_platform, PlatformPaths>>, <<K_status, StatusPaths>>} :
                  /\ f[1] \in DOMAIN hosts.v[i].v
                  /\ hosts.v[i].v[f[1]].t = "str"
                  /\ hosts.v[i].v[f[1]].v = FirstMatch(elems[i], f[2], Match)

\* C8, as stated: in every record the four canonical fields (uuid, hostname,
\* platform, status in the code's naming) are strings, each the string form
\* of the first non-empty candidate in its priority order, "" when there is
\* none.
C8_CanonicalFieldsAsStated == npc = "done" => CanonicalFieldsAre(NonEmpty)

\* C8, amended: the first candidate that JavaScript takes as true; a
\* candidate that is 0 or false is passed over like an absent, null or
\* empty one.
C8_CanonicalFields == npc = "done" => CanonicalFieldsAre(Truthy)

\* C8 witness: a record whose uuid came from a candidate after the first
\* (spec.hardware_uuid or later) while an earlier candidate was present but
\* empty.
C8_Witness ==
    /\ npc = "done"
    /\ Len(hosts.v) = 1
    /\ parsedOutput.t = "arr"
    /\ PathGet(parsedOutput.v[1], IdPaths[1]) = JStr(<<>>)
    /\ PathGet(parsedOutput.v[1], IdPaths[2]) = JNull
    /\ PathGet(parsedOutput.v[1], IdPaths[3]) = JStr(<<"b">>)
    /\ PathGet(parsedOutput.v[1], IdPaths[4]) = JStr(<<"a">>)
    /\ hosts.v[1].v[K_uuid] = JStr(<<"b">>)

\* The device sequence when only a mapping is taken as a single device: a
\* value that is no sequence and no mapping (a string, a number, a boolean,
\* null) has no device.
DeviceSequence(value) ==
    IF value.t = "arr" THEN value.v
    ELSE IF value.t = "obj" /\ Prop(value, K_hosts).t = "arr" THEN Prop(value, K_hosts).v
    ELSE IF value.t = "obj" /\ Prop(value, K_data).t = "arr" THEN Prop(value, K_data).v
    ELSE IF value.t = "obj" THEN <<value>>
    ELSE <<>>

\* The output is an array with one record per element of elems, in the
\* order of elems: record i has the uuid and the hostname of element i and
\* every other field element i has as an object.
RecordsFollow(elems) ==
    /\ hosts.t = "arr"
    /\ Len(hosts.v) = Len(elems)
    /\ \A i \in 1..Len(elems) :
          /\ hosts.v[i].t = "obj"
          /\ hosts.v[i].v[K_uuid].v = FirstMatch(elems[i], IdPaths, Truthy)
          /\ hosts.v[i].v[K_hostname].v = FirstMatch(elems[i], NamePaths, Truthy)
          /\ elems[i].t = "obj" =>
                \A k \in DOMAIN elems[i].v \ {K_uuid, K_hostname, K_platform, K_status} :
                    /\ k \in DOMAIN hosts.v[i].v
                    /\ hosts.v[i].v[k] = elems[i].v[k]

\* C11, as stated: the records follow the sequence chosen as value itself if
\* it is a sequence, else value.hosts if that is a sequence, else value.data
\* if that is a sequence, else the one-element sequence of value.
C11_ShapeResolutionAsStated == npc = "done" => RecordsFollow(ResolvedSequence(parsedOutput))

\* C11, amended: the last case wraps value only when it is a mapping; for a
\* value that is neither a sequence nor a mapping the output is empty.
C11_ShapeResolution == npc = "done" => RecordsFollow(DeviceSequence(parsedOutput))

\* C11 witness: hosts and data are both sequences, hosts holds two
\* different devices, and the output is made of them.
C11_Witness ==
    /\ npc = "done"
    /\ parsedOutput.t = "obj"
    /\ Prop(parsedOutput, K_hosts).t = "arr"
    /\ Prop(parsedOutput, K_data).t = "arr"
    /\ Len(Prop(parsedOutput, K_hosts).v) = 2
    /\ Prop(parsedOutput, K_hosts).v[1] # Prop(parsedOutput, K_hosts).v[2]
    /\ Prop(parsedOutput, K_hosts).v # Prop(parsedOutput, K_data).v
    /\ Len(hosts.v) = 2

\* C11 witness: a value that is neither a sequence nor a mapping gives no
\* record.
C11_WitnessScalar ==
    /\ npc = "done"
    /\ parsedOutput.t \in {"str", "num", "null"}
    /\ hosts = JArr(<<>>)

(***************************************************************************)
(* Claims about runFleetCommand's logging, checked under RedactSpec.       *)
(***************************************************************************)
\* The argument vector shown on a log line `Executing: <path> <arguments>`
\* (no argument of RedactSpec holds a space).
ShownVector(line) ==
    LET prefix == ExecutingLine(<<>>)
        rest == SubSeq(line, Len(prefix) + 1, Len(line))
    IN  IF rest = <<>> THEN <<>> ELSE Split(rest, " ")

\* C3: after the call, one line was logged; the vector it shows is as long
\* as args, holds ****** at every position that follows a --password and the
\* argument itself everywhere else; the array args is as the caller built
\* it, and it is the one vector passed to execFile.
C3_Redaction ==
    rpc = "spawned" =>
        /\ Len(logged) = 1
        /\ SubSeq(logged[1], 1, Len(ExecutingLine(<<>>))) = ExecutingLine(<<>>)
        /\ LET shown == ShownVector(logged[1])
           IN  /\ Len(shown) = Len(givenArgs)
               /\ \A i \in 1..Len(givenArgs) :
                     IF i > 1 /\ givenArgs[i - 1] = <<"-", "-", "p", "a", "s", "s", "w", "o", "r", "d">>
                     THEN shown[i] = <<"*", "*", "*", "*", "*", "*">>
                     ELSE shown[i] = givenArgs[i]
        /\ callArgs = givenArgs
        /\ execed = <<givenArgs>>

\* C3 witness: a call whose vector holds a secret after --password and
\* another argument after it.
C3_Witness ==
    /\ rpc = "spawned"
    /\ Len(givenArgs) = 3
    /\ givenArgs[1] = <<"-", "-", "p", "a", "s", "s", "w", "o", "r", "d">>
    /\ givenArgs[2] = <<"p", "w">>
    /\ givenArgs[3] = <<"-", "-", "j", "s", "o", "n">>
    /\ logged # <<>>

(***************************************************************************)
(* Claims about the server, checked under Spec.                            *)
(***************************************************************************)
FailureKinds == {"exit", "spawn", "maxBuffer"}

\* C1: for a login request that reached runFleetCommand, whatever end its
\* child process took, no line of the log and no text of the response holds
\* the password.
C1_SecretNeverSurfaces ==
    \A r \in Reqs :
        (reqs[r].endpoint = "login" /\ reqs[r].spawned # <<>>) =>
            /\ \A i \in 1..Len(reqs[r].log) :
                  ~Contains(reqs[r].log[i], reqs[r].body.password.v)
            /\ ~Contains(reqs[r].resp.text, reqs[r].body.password.v)

\* The inputs the routes are to reject: an address that does not start with
\* http, a context outside [A-Za-z0-9._-]+, an email that is no email, a
\* missing password, hosts that is empty or no array, a host identifier
\* that is not valid, a payload filename that is not valid, a payload file
\* that does not exist.
BadContext(body) == ~isValidContext(body.context)

FailsValidation(endpoint, body) ==
    CASE endpoint = "config" ->
            \/ ~Truthy(body.address)
            \/ ~StartsWith(body.address.v, <<"h", "t", "t", "p">>)
            \/ BadContext(body)
      [] endpoint = "login" ->
            \/ ~isValidEmail(body.email)
            \/ ~Truthy(body.password)
            \/ BadContext(body)
      [] endpoint = "hosts" -> BadContext(body)
      [] endpoint = "run-command" ->
            \/ body.hosts.t # "arr"
            \/ Len(body.hosts.v) = 0
            \/ \E i \in 1..Len(body.hosts.v) : ~isValidHostIdentifier(body.hosts.v[i])
            \/ BadContext(body)
            \/ ~Truthy(body.payload)
            \/ ~isValidFilename(body.payload)
            \/ PAYLOADS_DIR \o <<"/">> \o body.payload.v \notin PayloadFiles
      [] OTHER -> FALSE

\* C2: a request with an input that fails its validation, on any of the
\* four routes that run fleetctl, is answered with an error and spawns no
\* child process.
C2_InvalidInputNeverSpawns ==
    \A r \in Reqs :
        (reqs[r].stage # "none" /\ FailsValidation(reqs[r].endpoint, reqs[r].body)) =>
            /\ reqs[r].spawned = <<>>
            /\ reqs[r].resp.status = "error"

\* C4: when the child exited non-zero, could not be spawned or wrote more
\* than maxBuffer, the response is an error 500 whose details are stderr,
\* or the error's message when stderr is empty; stdout was not handed to
\* parsePossibleJson and no data is returned.  On both paths.
C4_ProcessFailureIsFailure ==
    \A r \in Reqs :
        (reqs[r].stage # "pending" /\ reqs[r].child.kind \in FailureKinds) =>
            /\ reqs[r].stage = "responded"
            /\ reqs[r].resp.status = "error"
            /\ reqs[r].resp.code = 500
            /\ reqs[r].resp.key = "details"
            /\ reqs[r].resp.text =
                  IF reqs[r].child.stderr # <<>> THEN reqs[r].child.stderr
                  ELSE ExecErrorMessage(reqs[r].spawned[1], reqs[r].child)
            /\ reqs[r].resp.data = Undefined
            /\ ~reqs[r].interpreted

\* C4 witness: a hosts request whose child exited non-zero with a stdout
\* that would parse, and a login request whose child could not be spawned.
C4_Witness ==
    /\ reqs[1].endpoint = "hosts"
    /\ reqs[1].stage = "responded"
    /\ reqs[1].child.kind = "exit"
    /\ reqs[1].child.stdout = <<"[", "{", "}", "]">>
    /\ reqs[2].endpoint = "login"
    /\ reqs[2].stage = "responded"
    /\ reqs[2].child.kind = "spawn"

\* C6: no request has more than one vector handed to execFile, before or
\* after its callback; and two requests with the same vector whose children
\* ended the same way have the same response, whatever else was in flight.
C6_OneInvocationOwnResult ==
    /\ \A r \in Reqs : Len(reqs[r].spawned) <= 1
    /\ \A r \in Reqs : reqs[r].stage = "pending" => Len(reqs[r].spawned) = 1
    /\ \A r1, r2 \in Reqs :
          (/\ reqs[r1].stage = "responded"
           /\ reqs[r2].stage = "responded"
           /\ reqs[r1].spawned # <<>>
           /\ reqs[r1].spawned = reqs[r2].spawned
           /\ reqs[r1].child = reqs[r2].child) => reqs[r1].resp = reqs[r2].resp

\* C6 witness: two hosts requests with the same vector, answered after
\* children that ended differently, one of them a parse error.
C6_Witness ==
    /\ reqs[1].endpoint = "hosts"
    /\ reqs[2].endpoint = "hosts"
    /\ reqs[1].stage = "responded"
    /\ reqs[2].stage = "responded"
    /\ reqs[1].spawned # <<>>
    /\ reqs[1].spawned = reqs[2].spawned
    /\ reqs[1].child.stdout = <<"x", "[", "y", "]">>
    /\ reqs[1].child.kind = "ok"
    /\ reqs[2].child.stdout = <<"[", "{", "}", "]">>
    /\ reqs[2].child.kind = "ok"
    /\ reqs[1].resp.status = "error"
    /\ reqs[2].resp.status = "ok"

(***************************************************************************)
(* Claims about the server, checked under LiveSpec.                        *)
(***************************************************************************)
\* C5: the Node process never ends and no request is left without a
\* response by an exception: a request is either not yet made, waiting for
\* its child, or answered with a response; a request waiting for its child
\* is answered once the child ends, whatever the end; and a route stays
\* ready to take a request in every free slot.
C5_FailuresAnswered ==
    /\ [](/\ alive
          /\ \A r \in Reqs :
                /\ reqs[r].stage \in {"none", "pending", "responded"}
                /\ reqs[r].stage = "responded" => reqs[r].resp # NoResp
                /\ reqs[r].stage = "none" => ENABLED GetHosts(r))
    /\ \A r \in Reqs : (reqs[r].stage = "pending") ~> (reqs[r].stage = "responded")

\* C5 witness: a hosts request answered with the parse error of its stdout,
\* a run-command request answered 404 for a missing payload file after it.
C5_Witness ==
    /\ alive
    /\ reqs[1].endpoint = "hosts"
    /\ reqs[1].stage = "responded"
    /\ reqs[1].child.kind = "ok"
    /\ reqs[1].resp.message = "Failed to parse hosts JSON"
    /\ reqs[2].endpoint = "run-command"
    /\ reqs[2].stage = "responded"
    /\ reqs[2].resp.code = 404

====
